---- MODULE Spec2Model ----
(***************************************************************************)
(* AI Bot Block Checker (src/app.py): the /check handler                   *)
(* check_ai_bot_block, with normalize_to_origin and the parts of the       *)
(* standard library it runs the input through (urllib.parse.urlparse /     *)
(* urlunparse, urllib.robotparser.RobotFileParser.parse / can_fetch).      *)
(*                                                                         *)
(* Text is a sequence of tokens.  In a URL the token "a" is a run of       *)
(* letters, digits and dots (a host name such as example.com), "http" is   *)
(* the name of a scheme that urllib registers in uses_netloc, and the      *)
(* other tokens are the single characters they show.  A robots.txt body    *)
(* is a sequence of lines, each already split into its field and value.    *)
(***************************************************************************)
EXTENDS Integers, Sequences, FiniteSets, TLC

VARIABLES DEFAULT_AI_BOTS, site, url, bots, includeRobotsTxt, pc, origin,
          robots_url, fetched, rp, warnings, results, blocked, response

vars == <<DEFAULT_AI_BOTS, site, url, bots, includeRobotsTxt, pc, origin,
          robots_url, fetched, rp, warnings, results, blocked, response>>

\* ------------------------------------------------------------------ bounds
MaxUrlLen == 5
MaxLines == 3
MaxBots == 2
MaxPairLines == 1

\* --------------------------------------------------------------- optionals
None == <<>>
Some(x) == <<x>>

\* ------------------------------------------------------------ text helpers
\* F applied to the value of v, with v evaluated once
Bind(v, F(_)) == CHOOSE res \in {F(x) : x \in {v}} : TRUE

RECURSIVE SeqsUpTo(_, _)
SeqsUpTo(S, n) ==
    IF n = 0 THEN {<<>>}
    ELSE LET shorter == SeqsUpTo(S, n - 1)
         IN shorter \cup {Append(s, x) : s \in {t \in shorter : Len(t) = n - 1}, x \in S}

\* str.find(c, start), 1-based: the first position >= start holding a token of
\* cs, or 0 when there is none.
Find(s, cs, start) ==
    IF \E i \in start..Len(s) : s[i] \in cs
    THEN CHOOSE i \in start..Len(s) : s[i] \in cs /\ \A j \in start..(i - 1) : s[j] \notin cs
    ELSE 0

Contains(s, c) == \E i \in 1..Len(s) : s[i] = c

StartsWith(s, p) == Len(p) <= Len(s) /\ SubSeq(s, 1, Len(p)) = p

\* str.rstrip("/")
RECURSIVE RStripSlash(_)
RStripSlash(s) ==
    IF s # <<>> /\ s[Len(s)] = "/" THEN RStripSlash(SubSeq(s, 1, Len(s) - 1)) ELSE s

\* ------------------------------------------------------------ urllib.parse
UrlChars == {"http", "a", ":", "/", "?", "#", "["}

\* scheme_chars, and str.isalpha() on the first character
SchemeChars == {"http", "https", "a"}
IsAlpha(c) == c \in {"http", "https", "a"}

\* the schemes of uses_netloc that the tokens can spell
uses_netloc == {<<"http">>, <<"https">>}

\* urlsplit's bracket check: a netloc with an unmatched [ or ] is refused
\* with ValueError("Invalid IPv6 URL").
UnbalancedBrackets(netloc) ==
    \/ Contains(netloc, "[") /\ ~Contains(netloc, "]")
    \/ Contains(netloc, "]") /\ ~Contains(netloc, "[")

\* _splitnetloc(url, 2): the netloc runs from the third character to the first
\* of / ? # after it.
SplitNetloc(u) ==
    Bind(Find(u, {"/", "?", "#"}, 3), LAMBDA w :
        IF w = 0 THEN [netloc |-> SubSeq(u, 3, Len(u)), rest |-> <<>>]
        ELSE [netloc |-> SubSeq(u, 3, w - 1), rest |-> SubSeq(u, w, Len(u))])

\* urlsplit, line "i = url.find(':')" to the scheme being cut off
SplitScheme(u) ==
    Bind(Find(u, {":"}, 1), LAMBDA i :
        IF i > 1 /\ IsAlpha(u[1]) /\ (\A k \in 1..(i - 1) : u[k] \in SchemeChars)
        THEN [scheme |-> SubSeq(u, 1, i - 1), rest |-> SubSeq(u, i + 1, Len(u))]
        ELSE [scheme |-> <<>>, rest |-> u])

\* urlsplit, "if url[:2] == '//'"
SplitAuthority(u) ==
    IF Len(u) >= 2 /\ u[1] = "/" /\ u[2] = "/"
    THEN Bind(SplitNetloc(u), LAMBDA n :
             [netloc |-> n.netloc, rest |-> n.rest,
              raises |-> UnbalancedBrackets(n.netloc)])
    ELSE [netloc |-> <<>>, rest |-> u, raises |-> FALSE]

\* url.split('#', 1) and url.split('?', 1): the text before the first c and
\* the text after it
SplitAt(u, c) ==
    Bind(Find(u, {c}, 1), LAMBDA i :
        IF i > 0 THEN [before |-> SubSeq(u, 1, i - 1), after |-> SubSeq(u, i + 1, Len(u))]
        ELSE [before |-> u, after |-> <<>>])

\* urlparse(url): scheme, netloc, path, query, fragment (no token spells ';',
\* so params is always empty), or raises ValueError.
urlparse(u) ==
    Bind(SplitScheme(u), LAMBDA s :
    Bind(SplitAuthority(s.rest), LAMBDA n :
    Bind(SplitAt(n.rest, "#"), LAMBDA f :
    Bind(SplitAt(f.before, "?"), LAMBDA q :
        [raises |-> n.raises, scheme |-> s.scheme, netloc |-> n.netloc,
         path |-> q.before, query |-> q.after, fragment |-> f.after]))))

\* urlunparse((scheme, netloc, "", "", "", ""))
urlunparse(scheme, netloc) ==
    (IF scheme # <<>> THEN scheme \o <<":">> ELSE <<>>)
    \o (IF netloc # <<>> \/ (scheme # <<>> /\ scheme \in uses_netloc)
        THEN <<"/", "/">> \o netloc
        ELSE <<>>)

\* normalize_to_origin(url); raises is urlparse's ValueError, which the
\* function does not catch.
normalize_to_origin(u) ==
    Bind(urlparse(u), LAMBDA p :
        [raises |-> p.raises,
         value |-> urlunparse(IF p.scheme # <<>> THEN p.scheme ELSE <<"https">>,
                              IF p.netloc # <<>> THEN p.netloc ELSE p.path)])

\* ------------------------------------------------------ urllib.robotparser
\* A line of robots.txt: its field (lower-cased, "" for an empty line) and its
\* value.  The value <<"sup2">> is a superscript digit, for which
\* str.isdigit() is true and int() raises ValueError.
UALine(agent) == [field |-> "user-agent", value |-> <<agent>>]
Line_UAStar == UALine("*")
Line_UAGPT == UALine("GPTBot")
Line_DisallowRoot == [field |-> "disallow", value |-> <<"/">>]
Line_AllowRoot == [field |-> "allow", value |-> <<"/">>]
Line_Empty == [field |-> "", value |-> <<>>]
Line_CrawlDelayBad == [field |-> "crawl-delay", value |-> <<"sup2">>]

Lines == {Line_UAStar, Line_UAGPT, Line_DisallowRoot, Line_AllowRoot,
          Line_Empty, Line_CrawlDelayBad}

IsDigit(v) == v \in {<<"1">>, <<"sup2">>}
IntRaises(v) == v # <<"1">>

\* Entry()
NewEntry == [useragents |-> <<>>, rulelines |-> <<>>]

\* RuleLine(path, allowance): an empty Disallow means allow all.
RuleLine(path, allowance) ==
    [path |-> path, allowance |-> (allowance \/ path = <<>>)]

\* RobotFileParser() after set_url: nothing parsed, last_checked = 0.
NewParser ==
    [entries |-> <<>>, default_entry |-> None, last_checked |-> FALSE,
     state |-> 0, entry |-> NewEntry, raised |-> FALSE]

\* _add_entry with every entry appended in the order of the file
AddEntry_InOrder(p) == [p EXCEPT !.entries = Append(p.entries, p.entry)]

\* _add_entry: the first entry naming * becomes the default entry, later ones
\* naming * are dropped, every other entry is appended.
AddEntry(p) ==
    IF \E i \in 1..Len(p.entry.useragents) : p.entry.useragents[i] = "*"
    THEN IF p.default_entry = None
         THEN [p EXCEPT !.default_entry = Some(p.entry)]
         ELSE p
    ELSE [p EXCEPT !.entries = Append(p.entries, p.entry)]

\* One pass of parse()'s loop body over a line.
ParseLine(p, line) ==
    IF line.field = ""
    THEN IF p.state = 1 THEN [p EXCEPT !.entry = NewEntry, !.state = 0]
         ELSE IF p.state = 2
              THEN [AddEntry(p) EXCEPT !.entry = NewEntry, !.state = 0]
              ELSE p
    ELSE IF line.field = "user-agent"
    THEN Bind(IF p.state = 2 THEN [AddEntry(p) EXCEPT !.entry = NewEntry] ELSE p,
              LAMBDA p1 : [p1 EXCEPT !.entry.useragents = Append(@, line.value[1]),
                                     !.state = 1])
    ELSE IF line.field \in {"disallow", "allow"}
    THEN IF p.state # 0
         THEN [p EXCEPT !.entry.rulelines =
                            Append(@, RuleLine(line.value, line.field = "allow")),
                        !.state = 2]
         ELSE p
    ELSE IF line.field = "crawl-delay"
    THEN IF p.state # 0
         THEN IF IsDigit(line.value) /\ IntRaises(line.value)
              THEN [p EXCEPT !.raised = TRUE]
              ELSE [p EXCEPT !.state = 2]
         ELSE p
    ELSE p

RECURSIVE ParseLines(_, _)
ParseLines(p, lines) ==
    IF lines = <<>> \/ p.raised THEN p
    ELSE Bind(ParseLine(p, Head(lines)), LAMBDA p1 : ParseLines(p1, Tail(lines)))

\* parse with modified() called after the loop instead of before it
parse_ModifiedLast(p, lines) ==
    Bind(ParseLines(p, lines), LAMBDA p1 :
        IF p1.raised THEN p1
        ELSE [(IF p1.state = 2 THEN AddEntry(p1) ELSE p1) EXCEPT !.last_checked = TRUE])

\* rp.parse(lines): modified() first, then the lines; the entry being built is
\* added at the end unless an exception ended the loop.
parse(p, lines) ==
    Bind(ParseLines([p EXCEPT !.last_checked = TRUE], lines), LAMBDA p1 :
        IF ~p1.raised /\ p1.state = 2 THEN AddEntry(p1) ELSE p1)

\* str.lower() on the agent names of the model
Lower(name) ==
    CASE name = "GPTBot" -> "gptbot"
      [] name = "PerplexityBot" -> "perplexitybot"
      [] name = "ClaudeBot" -> "claudebot"
      [] name = "CCBot" -> "ccbot"
      [] name = "Google-Extended" -> "google-extended"
      [] name = "Amazonbot" -> "amazonbot"
      [] OTHER -> name

\* Entry.applies_to(useragent): * applies to all; otherwise the lower-cased
\* agent must occur in the lower-cased name (no name of the model is part of
\* another, so "occurs in" is equality here).
EntryAppliesTo(entry, useragent) ==
    \E i \in 1..Len(entry.useragents) :
        \/ entry.useragents[i] = "*"
        \/ Lower(entry.useragents[i]) = Lower(useragent)

\* Entry.allowance(filename): the first rule line that applies decides.
RECURSIVE Allowance(_, _)
Allowance(rulelines, filename) ==
    IF rulelines = <<>> THEN TRUE
    ELSE IF Head(rulelines).path = <<"*">> \/ StartsWith(filename, Head(rulelines).path)
         THEN Head(rulelines).allowance
         ELSE Allowance(Tail(rulelines), filename)

\* the path can_fetch tests: urlunparse(('', '', path, params, query, fragment))
\* of the parsed url, "/" when that is empty
FetchPath(u) ==
    Bind(urlparse(u), LAMBDA p :
        IF p.path = <<>> /\ p.query = <<>> /\ p.fragment = <<>> THEN <<"/">>
        ELSE p.path \o (IF p.query # <<>> THEN <<"?">> \o p.query ELSE <<>>)
                    \o (IF p.fragment # <<>> THEN <<"#">> \o p.fragment ELSE <<>>))

RECURSIVE FirstApplying(_, _)
FirstApplying(entries, useragent) ==
    IF entries = <<>> THEN None
    ELSE IF EntryAppliesTo(Head(entries), useragent) THEN Some(Head(entries))
         ELSE FirstApplying(Tail(entries), useragent)

\* rp.can_fetch(useragent, url)
can_fetch(p, useragent, u) ==
    IF ~p.last_checked THEN FALSE
    ELSE Bind(FetchPath(u), LAMBDA filename :
         Bind(FirstApplying(p.entries, useragent), LAMBDA e :
            IF e # None THEN Allowance(e[1].rulelines, filename)
            ELSE IF p.default_entry # None
                 THEN Allowance(p.default_entry[1].rulelines, filename)
                 ELSE TRUE))

\* ------------------------------------------------------------- src/app.py
DefaultBots ==
    <<"GPTBot", "PerplexityBot", "ClaudeBot", "CCBot", "Google-Extended", "Amazonbot">>

BotResult(ua, can_root) ==
    [userAgent |-> ua, canFetchRoot |-> can_root, canFetchSitewide |-> can_root,
     notes |-> None]

CheckResponse(found, rurl, status, blockedBots, res, txt, warns) ==
    [robotsTxtFound |-> found, robotsUrl |-> rurl, statusCode |-> status,
     blockedBots |-> blockedBots, results |-> res, robotsTxt |-> txt,
     warnings |-> warns]

Reqs == DOMAIN pc

\* The bots parameter: the list given in the query, or, when the query names
\* none, the module-level list itself (the default is the same list object for
\* every request).
Bots(req) == IF bots[req].default THEN DEFAULT_AI_BOTS ELSE bots[req].list

\* r.text.strip() is empty: the body holds nothing but empty lines
TextIsBlank(body) == \A i \in 1..Len(body) : body[i] = Line_Empty

\* the loop with a bot that was already seen skipped
RECURSIVE EvalLoop_SkipSeen(_, _, _, _)
EvalLoop_SkipSeen(p, bs, org, acc) ==
    IF bs = <<>> THEN acc
    ELSE IF \E i \in 1..Len(acc.results) : acc.results[i].userAgent = Head(bs)
    THEN EvalLoop_SkipSeen(p, Tail(bs), org, acc)
    ELSE Bind(can_fetch(p, Head(bs), org \o <<"/">>), LAMBDA can_root :
         Bind([results |-> Append(acc.results, BotResult(Head(bs), can_root)),
               blocked |-> IF ~can_root THEN Append(acc.blocked, Head(bs))
                           ELSE acc.blocked],
              LAMBDA acc1 : EvalLoop_SkipSeen(p, Tail(bs), org, acc1)))

\* the loop with a blocked bot listed once only
RECURSIVE EvalLoop_BlockedOnce(_, _, _, _)
EvalLoop_BlockedOnce(p, bs, org, acc) ==
    IF bs = <<>> THEN acc
    ELSE Bind(can_fetch(p, Head(bs), org \o <<"/">>), LAMBDA can_root :
         Bind([results |-> Append(acc.results, BotResult(Head(bs), can_root)),
               blocked |-> IF ~can_root /\ ~Contains(acc.blocked, Head(bs))
                           THEN Append(acc.blocked, Head(bs))
                           ELSE acc.blocked],
              LAMBDA acc1 : EvalLoop_BlockedOnce(p, Tail(bs), org, acc1)))

\* the for loop over bots: results and blocked after the bots of bs
RECURSIVE EvalLoop(_, _, _, _)
EvalLoop(p, bs, org, acc) ==
    IF bs = <<>> THEN acc
    ELSE Bind(can_fetch(p, Head(bs), org \o <<"/">>), LAMBDA can_root :
         Bind([results |-> Append(acc.results, BotResult(Head(bs), can_root)),
               blocked |-> IF ~can_root THEN Append(acc.blocked, Head(bs))
                           ELSE acc.blocked],
              LAMBDA acc1 : EvalLoop(p, Tail(bs), org, acc1)))

\* what the origin server may answer: requests.get raises a RequestException,
\* or returns a status and a body
Exceptions == {"Timeout", "ConnectionError"}
Statuses == {200, 404, 503}

\* robots.txt files of two groups, one for * and one for GPTBot, in both orders
TwoGroupBodies ==
    {<<Line_UAStar, x, Line_UAGPT, y>> : x, y \in {Line_DisallowRoot, Line_AllowRoot}}
    \cup {<<Line_UAGPT, y, Line_UAStar, x>> : x, y \in {Line_DisallowRoot, Line_AllowRoot}}

\* a group for * that is complete when parse fails in the group after it
Body_FailsAfterStar ==
    <<Line_UAStar, Line_DisallowRoot, Line_UAGPT, Line_CrawlDelayBad>>

SampleBodies == TwoGroupBodies \cup {Body_FailsAfterStar}

OutcomesUpTo(n) ==
    {[kind |-> "exc", cls |-> c, status |-> 0, body |-> <<>>] : c \in Exceptions}
    \cup {[kind |-> "resp", cls |-> "", status |-> st, body |-> b] :
             st \in Statuses \ {200}, b \in {<<>>, <<Line_UAStar, Line_DisallowRoot>>}}
    \cup {[kind |-> "resp", cls |-> "", status |-> 200, body |-> b] :
             b \in SeqsUpTo(Lines, n) \cup SampleBodies}

AnySite == [kind |-> "any", cls |-> "", status |-> 0, body |-> <<>>]
NotFetched == [kind |-> "none", cls |-> "", status |-> 0, body |-> <<>>]
NoParser == [entries |-> <<>>, default_entry |-> None, last_checked |-> FALSE]
NoResponse == [robotsTxtFound |-> FALSE, robotsUrl |-> <<>>, statusCode |-> None,
               blockedBots |-> <<>>, results |-> <<>>, robotsTxt |-> None,
               warnings |-> <<>>]

\* the answers a fetch may get in this behaviour
Answers == IF site = AnySite THEN OutcomesUpTo(MaxLines) ELSE {site}

\* line 56-58: origin, robots_url, warnings; urlparse's ValueError leaves the
\* handler
Normalize(req) ==
    /\ pc[req] = "START"
    /\ \E n \in {normalize_to_origin(url[req])} :
          IF n.raises
          THEN /\ pc' = [pc EXCEPT ![req] = "RAISED"]
               /\ UNCHANGED <<origin, robots_url>>
          ELSE /\ pc' = [pc EXCEPT ![req] = "FETCHING"]
               /\ origin' = [origin EXCEPT ![req] = RStripSlash(n.value)]
               /\ robots_url' = [robots_url EXCEPT
                                   ![req] = RStripSlash(n.value) \o <<"/", "robots.txt">>]
    /\ UNCHANGED <<DEFAULT_AI_BOTS, site, url, bots, includeRobotsTxt, fetched, rp,
                   warnings, results, blocked, response>>

\* line 60-63: requests.get raises a RequestException
FetchRaises(req) ==
    /\ pc[req] = "FETCHING"
    /\ \E o \in Answers :
          /\ o.kind = "exc"
          /\ fetched' = [fetched EXCEPT ![req] = o]
    /\ pc' = [pc EXCEPT ![req] = "FETCH_FAILED"]
    /\ UNCHANGED <<DEFAULT_AI_BOTS, site, url, bots, includeRobotsTxt, origin,
                   robots_url, rp, warnings, results, blocked, response>>

\* the test of line 74 without "or not r.text.strip()"
FetchReturns_StatusOnly(req) ==
    /\ pc[req] = "FETCHING"
    /\ \E o \in Answers :
          /\ o.kind = "resp"
          /\ fetched' = [fetched EXCEPT ![req] = o]
          /\ pc' = [pc EXCEPT ![req] = IF o.status # 200 THEN "NOT_FOUND" ELSE "FOUND"]
    /\ UNCHANGED <<DEFAULT_AI_BOTS, site, url, bots, includeRobotsTxt, origin,
                   robots_url, rp, warnings, results, blocked, response>>

\* line 60-62 and the test of line 74: requests.get returns
FetchReturns(req) ==
    /\ pc[req] = "FETCHING"
    /\ \E o \in Answers :
          /\ o.kind = "resp"
          /\ fetched' = [fetched EXCEPT ![req] = o]
          /\ pc' = [pc EXCEPT ![req] = IF o.status # 200 \/ TextIsBlank(o.body)
                                       THEN "NOT_FOUND" ELSE "FOUND"]
    /\ UNCHANGED <<DEFAULT_AI_BOTS, site, url, bots, includeRobotsTxt, origin,
                   robots_url, rp, warnings, results, blocked, response>>

\* line 64-72 with warnings=warnings, as the other two responses have it
RespondFetchFailed_NoWarning(req) ==
    /\ pc[req] = "FETCH_FAILED"
    /\ response' = [response EXCEPT ![req] =
          CheckResponse(FALSE, robots_url[req], None, <<>>, <<>>, None, warnings[req])]
    /\ pc' = [pc EXCEPT ![req] = "RESPONDED"]
    /\ UNCHANGED <<DEFAULT_AI_BOTS, site, url, bots, includeRobotsTxt, origin,
                   robots_url, fetched, rp, warnings, results, blocked>>

\* line 64-72
RespondFetchFailed(req) ==
    /\ pc[req] = "FETCH_FAILED"
    /\ response' = [response EXCEPT ![req] =
          CheckResponse(FALSE, robots_url[req], None, <<>>, <<>>, None,
                        <<[kind |-> "Fetch error", cls |-> fetched[req].cls]>>)]
    /\ pc' = [pc EXCEPT ![req] = "RESPONDED"]
    /\ UNCHANGED <<DEFAULT_AI_BOTS, site, url, bots, includeRobotsTxt, origin,
                   robots_url, fetched, rp, warnings, results, blocked>>

\* line 75-83
RespondNotFound(req) ==
    /\ pc[req] = "NOT_FOUND"
    /\ response' = [response EXCEPT ![req] =
          CheckResponse(FALSE, robots_url[req], Some(fetched[req].status), <<>>, <<>>,
                        None, warnings[req])]
    /\ pc' = [pc EXCEPT ![req] = "RESPONDED"]
    /\ UNCHANGED <<DEFAULT_AI_BOTS, site, url, bots, includeRobotsTxt, origin,
                   robots_url, fetched, rp, warnings, results, blocked>>

\* line 85-91: the parser is made and fed the lines; an exception of parse is
\* recorded as a warning
Parse(req) ==
    /\ pc[req] = "FOUND"
    /\ \E p \in {parse(NewParser, fetched[req].body)} :
          /\ rp' = [rp EXCEPT ![req] =
                      [entries |-> p.entries, default_entry |-> p.default_entry,
                       last_checked |-> p.last_checked]]
          /\ warnings' = [warnings EXCEPT ![req] =
                            IF p.raised
                            THEN Append(@, [kind |-> "Parse warning", cls |-> "ValueError"])
                            ELSE @]
    /\ pc' = [pc EXCEPT ![req] = "PARSING"]
    /\ UNCHANGED <<DEFAULT_AI_BOTS, site, url, bots, includeRobotsTxt, origin,
                   robots_url, fetched, results, blocked, response>>

\* line 93-106 with the blocked bots taken out of the list that was passed in
Evaluate_DropsBlocked(req) ==
    /\ pc[req] = "PARSING"
    /\ ~urlparse(origin[req] \o <<"/">>).raises
    /\ \E done \in {EvalLoop(rp[req], Bots(req), origin[req],
                              [results |-> <<>>, blocked |-> <<>>])} :
          /\ results' = [results EXCEPT ![req] = done.results]
          /\ blocked' = [blocked EXCEPT ![req] = done.blocked]
          /\ DEFAULT_AI_BOTS' = IF bots[req].default
                                THEN SelectSeq(DEFAULT_AI_BOTS,
                                               LAMBDA b : ~Contains(done.blocked, b))
                                ELSE DEFAULT_AI_BOTS
          /\ pc' = [pc EXCEPT ![req] = "EVALUATED"]
    /\ UNCHANGED <<site, url, bots, includeRobotsTxt, origin,
                   robots_url, fetched, rp, warnings, response>>

\* line 93-106; urlparse's ValueError in can_fetch would leave the handler
Evaluate(req) ==
    /\ pc[req] = "PARSING"
    /\ IF urlparse(origin[req] \o <<"/">>).raises
       THEN /\ pc' = [pc EXCEPT ![req] = "RAISED"]
            /\ UNCHANGED <<results, blocked>>
       ELSE \E done \in {EvalLoop(rp[req], Bots(req), origin[req],
                                   [results |-> <<>>, blocked |-> <<>>])} :
               /\ results' = [results EXCEPT ![req] = done.results]
               /\ blocked' = [blocked EXCEPT ![req] = done.blocked]
               /\ pc' = [pc EXCEPT ![req] = "EVALUATED"]
    /\ UNCHANGED <<DEFAULT_AI_BOTS, site, url, bots, includeRobotsTxt, origin,
                   robots_url, fetched, rp, warnings, response>>

\* line 108-116
Respond(req) ==
    /\ pc[req] = "EVALUATED"
    /\ response' = [response EXCEPT ![req] =
          CheckResponse(TRUE, robots_url[req], Some(fetched[req].status), blocked[req],
                        results[req],
                        IF includeRobotsTxt[req] THEN Some(fetched[req].body) ELSE None,
                        warnings[req])]
    /\ pc' = [pc EXCEPT ![req] = "RESPONDED"]
    /\ UNCHANGED <<DEFAULT_AI_BOTS, site, url, bots, includeRobotsTxt, origin,
                   robots_url, fetched, rp, warnings, results, blocked>>

\* ------------------------------------------------------------ the requests
Url_Bare == <<"a">>
Url_BarePath == <<"a", "/", "a">>
Url_Full == <<"http", ":", "/", "/", "a", "/", "a">>
Url_BadBracket == <<"http", ":", "/", "/", "[">>
SampleUrls == {Url_Bare, Url_BarePath, Url_BadBracket}

Agents == {"GPTBot", "ClaudeBot"}

BotsArgs(n) ==
    {[default |-> TRUE, list |-> <<>>]}
    \cup {[default |-> FALSE, list |-> l] : l \in SeqsUpTo(Agents, n)}

InitWith(ids, urls, botsArgs, sites) ==
    /\ DEFAULT_AI_BOTS = DefaultBots
    /\ site \in sites
    /\ url \in [ids -> urls]
    /\ bots \in [ids -> botsArgs]
    /\ includeRobotsTxt \in [ids -> BOOLEAN]
    /\ pc = [i \in ids |-> "START"]
    /\ origin = [i \in ids |-> <<>>]
    /\ robots_url = [i \in ids |-> <<>>]
    /\ fetched = [i \in ids |-> NotFetched]
    /\ rp = [i \in ids |-> NoParser]
    /\ warnings = [i \in ids |-> <<>>]
    /\ results = [i \in ids |-> <<>>]
    /\ blocked = [i \in ids |-> <<>>]
    /\ response = [i \in ids |-> NoResponse]

\* one request, any answer of the origin server
Init == InitWith({1}, SampleUrls, BotsArgs(MaxBots), {AnySite})

Next ==
    \/ \E req \in Reqs : Normalize(req)
    \/ \E req \in Reqs : FetchRaises(req)
    \/ \E req \in Reqs : FetchReturns(req)
    \/ \E req \in Reqs : RespondFetchFailed(req)
    \/ \E req \in Reqs : RespondNotFound(req)
    \/ \E req \in Reqs : Parse(req)
    \/ \E req \in Reqs : Evaluate(req)
    \/ \E req \in Reqs : Respond(req)

Spec == Init /\ [][Next]_vars

\* two requests in flight against a robots.txt that does not change
PairUrls == {Url_Bare, Url_Full}
PairBots == {[default |-> TRUE, list |-> <<>>], [default |-> FALSE, list |-> <<"GPTBot">>]}
InitPair == InitWith({1, 2}, PairUrls, PairBots, OutcomesUpTo(MaxPairLines))
SpecPair == InitPair /\ [][Next]_vars

\* normalize_to_origin alone, on every text of up to MaxUrlLen tokens
InitNorm == InitWith({1}, SeqsUpTo(UrlChars, MaxUrlLen), {[default |-> TRUE, list |-> <<>>]},
                     {AnySite})
NextNorm == \E req \in Reqs : Normalize(req)
SpecNorm == InitNorm /\ [][NextNorm]_vars

\* ------------------------------------------------------------------ claims
Done(req) == pc[req] = "RESPONDED"

\* results[i].userAgent = bots[i] for every i, and as many results as bots
ResultsFollowBots(req) ==
    /\ Len(response[req].results) = Len(Bots(req))
    /\ \A i \in 1..Len(Bots(req)) : response[req].results[i].userAgent = Bots(req)[i]

\* C1 as stated: in every response, whatever the fetch gave, results has the
\* length of the requested bots and results[i].userAgent = bots[i].
C1_AnyOutcome == \A req \in Reqs : Done(req) => ResultsFollowBots(req)

\* C1 as amended: a response with robotsTxtFound = true has one result per
\* requested bot, in the order of the request (results[i].userAgent =
\* bots[i], duplicates kept); every other response has no results.
C1_FoundOnly ==
    \A req \in Reqs :
        Done(req) =>
            IF response[req].robotsTxtFound
            THEN ResultsFollowBots(req)
            ELSE response[req].results = <<>>

\* a found robots.txt and a request that names the same bot twice
C1_Witness ==
    \E req \in Reqs :
        /\ Done(req)
        /\ response[req].robotsTxtFound
        /\ Len(Bots(req)) = 2
        /\ Bots(req)[1] = Bots(req)[2]
        /\ Len(response[req].results) = 2

\* the userAgent of the results with canFetchRoot = false, in order
RECURSIVE BlockedOf(_)
BlockedOf(res) ==
    IF res = <<>> THEN <<>>
    ELSE (IF ~Head(res).canFetchRoot THEN <<Head(res).userAgent>> ELSE <<>>)
         \o BlockedOf(Tail(res))

\* C2: in every response blockedBots is the sequence of userAgent of the
\* results whose canFetchRoot is false, in the order of the results (a bot
\* asked for twice and blocked is listed twice, an allowed bot never).
C2_BlockedBots ==
    \A req \in Reqs : Done(req) => response[req].blockedBots = BlockedOf(response[req].results)

\* a bot asked for twice and blocked both times
C2_Witness ==
    \E req \in Reqs :
        /\ Done(req)
        /\ response[req].blockedBots = <<"GPTBot", "GPTBot">>

\* C3: when requests.get raises (a timeout, a transport error) the response
\* is robotsTxtFound = false, statusCode = null, results = [], blockedBots =
\* [], robotsTxt = null and exactly one warning, naming the exception class;
\* nothing was parsed and no bot was evaluated.
C3_FetchError ==
    \A req \in Reqs :
        (Done(req) /\ fetched[req].kind = "exc") =>
            /\ response[req].robotsTxtFound = FALSE
            /\ response[req].statusCode = None
            /\ response[req].results = <<>>
            /\ response[req].blockedBots = <<>>
            /\ response[req].robotsTxt = None
            /\ Len(response[req].warnings) = 1
            /\ response[req].warnings[1].kind = "Fetch error"
            /\ response[req].warnings[1].cls = fetched[req].cls
            /\ rp[req] = NoParser
            /\ results[req] = <<>>
            /\ blocked[req] = <<>>

\* a request whose fetch timed out, answered
C3_Witness ==
    \E req \in Reqs :
        /\ Done(req)
        /\ fetched[req].kind = "exc"
        /\ fetched[req].cls = "Timeout"
        /\ Bots(req) # <<>>

\* C4: a fetch that returns a status other than 200, or 200 with an empty
\* body, is answered robotsTxtFound = false with the status the fetch
\* returned, results = [], blockedBots = [], robotsTxt = null and no
\* warnings; robotsTxtFound = true only for status 200 and a non-empty body.
C4_NotFound ==
    \A req \in Reqs :
        Done(req) =>
            /\ (fetched[req].kind = "resp" /\ (fetched[req].status # 200 \/ fetched[req].body = <<>>)) =>
                  /\ response[req].robotsTxtFound = FALSE
                  /\ response[req].statusCode = Some(fetched[req].status)
                  /\ response[req].results = <<>>
                  /\ response[req].blockedBots = <<>>
                  /\ response[req].robotsTxt = None
                  /\ response[req].warnings = <<>>
            /\ response[req].robotsTxtFound =>
                  /\ fetched[req].kind = "resp"
                  /\ fetched[req].status = 200
                  /\ fetched[req].body # <<>>

\* status 200 with an empty body, answered
C4_Witness ==
    \E req \in Reqs :
        /\ Done(req)
        /\ fetched[req].kind = "resp"
        /\ fetched[req].status = 200
        /\ fetched[req].body = <<>>
        /\ Bots(req) # <<>>

\* An origin: scheme://host or scheme://host:port, nothing after it.
IsOrigin(v) ==
    \E k \in 1..Len(v) :
        /\ k > 1
        /\ k + 3 <= Len(v)
        /\ v[k] = ":" /\ v[k + 1] = "/" /\ v[k + 2] = "/"
        /\ \A j \in 1..(k - 1) : v[j] \in SchemeChars
        /\ \A j \in (k + 3)..Len(v) : v[j] \notin {"/", "?", "#"}

\* the inputs C5 speaks of: a host name, or http://host, then maybe a port,
\* then maybe a path, a query or a fragment
AfterHost(u, n) ==
    \/ Len(u) = n
    \/ Len(u) > n /\ u[n + 1] \in {"/", "?", "#"}
    \/ /\ Len(u) >= n + 2 /\ u[n + 1] = ":" /\ u[n + 2] = "a"
       /\ (Len(u) = n + 2 \/ u[n + 3] \in {"/", "?", "#"})
BareHostInput(u) == StartsWith(u, <<"a">>) /\ AfterHost(u, 1) /\ ~Contains(u, "[")
FullUrlInput(u) ==
    StartsWith(u, <<"http", ":", "/", "/", "a">>) /\ AfterHost(u, 5) /\ ~Contains(u, "[")

\* C5: for a full URL or a bare host name, with or without port, path, query
\* or fragment, normalize_to_origin returns scheme://host[:port] with no
\* path, query or fragment; an input without a scheme gets the scheme https
\* and its host from the path component.
C5_Origin ==
    \A req \in Reqs :
        (pc[req] = "FETCHING" /\ (BareHostInput(url[req]) \/ FullUrlInput(url[req]))) =>
            /\ ~normalize_to_origin(url[req]).raises
            /\ IsOrigin(normalize_to_origin(url[req]).value)
            /\ BareHostInput(url[req]) =>
                  StartsWith(normalize_to_origin(url[req]).value, <<"https", ":", "/", "/", "a">>)

Found200(req, body) ==
    /\ Done(req)
    /\ fetched[req].kind = "resp"
    /\ fetched[req].status = 200
    /\ fetched[req].body = body

Allows(line) == line = Line_AllowRoot

\* C6: canFetchRoot of a bot is decided by the group that names it, and by
\* the * group only when no group names it: "User-agent: GPTBot / Disallow:
\* /" blocks GPTBot; "User-agent: * / Allow: /" allows GPTBot and ClaudeBot;
\* with a group for * and a group for GPTBot, in either order, GPTBot gets
\* what its own group says and every other bot what the * group says; and
\* when no group names GPTBot all bots get the same answer.
C6_Groups ==
    \A req \in Reqs :
        /\ (Found200(req, <<Line_UAGPT, Line_DisallowRoot>>) /\ Bots(req) = <<"GPTBot">>) =>
              /\ response[req].robotsTxtFound
              /\ response[req].results[1].canFetchRoot = FALSE
              /\ response[req].blockedBots = <<"GPTBot">>
        /\ (Found200(req, <<Line_UAStar, Line_AllowRoot>>) /\ Bots(req) = <<"GPTBot", "ClaudeBot">>) =>
              /\ response[req].robotsTxtFound
              /\ response[req].results[1].canFetchRoot
              /\ response[req].results[2].canFetchRoot
              /\ response[req].blockedBots = <<>>
        /\ \A x, y \in {Line_DisallowRoot, Line_AllowRoot} :
              (\/ Found200(req, <<Line_UAStar, x, Line_UAGPT, y>>)
               \/ Found200(req, <<Line_UAGPT, y, Line_UAStar, x>>)) =>
                  /\ Len(response[req].results) = Len(Bots(req))
                  /\ \A i \in 1..Len(response[req].results) :
                        response[req].results[i].canFetchRoot =
                            IF response[req].results[i].userAgent = "GPTBot"
                            THEN Allows(y) ELSE Allows(x)
        /\ (Done(req) /\ response[req].robotsTxtFound
                /\ \A i \in 1..Len(fetched[req].body) : fetched[req].body[i] # Line_UAGPT) =>
              \A i, j \in 1..Len(response[req].results) :
                  response[req].results[i].canFetchRoot = response[req].results[j].canFetchRoot

\* the * group first and blocking, GPTBot's own group after it and allowing,
\* and both a named and an unnamed bot asked for
C6_Witness ==
    \E req \in Reqs :
        /\ Found200(req, <<Line_UAStar, Line_DisallowRoot, Line_UAGPT, Line_AllowRoot>>)
        /\ Bots(req) = <<"GPTBot", "ClaudeBot">>
        /\ response[req].blockedBots = <<"ClaudeBot">>

\* C7: no exception leaves check_ai_bot_block: whatever the url, the fetch,
\* the parse and the evaluation do, the request ends with a response.
C7_NoEscape == \A req \in Reqs : pc[req] # "RAISED"

\* C8: two requests with the same url, bots and includeRobotsTxt against an
\* unchanged robots.txt get the same response, however their steps
\* interleave, and no request changes DEFAULT_AI_BOTS.
C8_Deterministic ==
    /\ DEFAULT_AI_BOTS = DefaultBots
    /\ \A r1, r2 \in Reqs :
          (/\ Done(r1) /\ Done(r2)
           /\ url[r1] = url[r2]
           /\ bots[r1] = bots[r2]
           /\ includeRobotsTxt[r1] = includeRobotsTxt[r2]) =>
              response[r1] = response[r2]

\* two requests with the same inputs, both answered from the default list,
\* with bots blocked
C8_Witness ==
    /\ Done(1) /\ Done(2)
    /\ url[1] = url[2] /\ bots[1] = bots[2] /\ includeRobotsTxt[1] = includeRobotsTxt[2]
    /\ bots[1].default
    /\ response[1].robotsTxtFound
    /\ response[1].blockedBots # <<>>

\* the steps of the state machine of the design
PathEdges ==
    {<<"START", "FETCHING">>, <<"FETCHING", "FETCH_FAILED">>,
     <<"FETCHING", "NOT_FOUND">>, <<"FETCHING", "FOUND">>,
     <<"FETCH_FAILED", "RESPONDED">>, <<"NOT_FOUND", "RESPONDED">>,
     <<"FOUND", "PARSING">>, <<"PARSING", "EVALUATED">>,
     <<"EVALUATED", "RESPONDED">>}

\* C9: every request goes START, FETCHING, one of FETCH_FAILED, NOT_FOUND
\* and FOUND, then (after FOUND only) PARSING and EVALUATED, and ends in
\* RESPONDED: each step of a request is a step of that path, and a request
\* that can take no further step has responded.
C9_Path ==
    [][\A req \in Reqs :
          /\ pc'[req] # pc[req] => <<pc[req], pc'[req]>> \in PathEdges
          /\ (pc'[req] # "RESPONDED" => pc'[req] \in {e[1] : e \in PathEdges})]_vars

ParseFailed(req) ==
    \E i \in 1..Len(response[req].warnings) : response[req].warnings[i].kind = "Parse warning"

\* no User-agent line of the body names the bot or *
NoGroupFor(body, ua) ==
    \A i \in 1..Len(body) :
        body[i].field = "user-agent" => body[i].value[1] \notin {"*", ua}

\* C10: a parse failure of a fetched robots.txt is recorded as one warning
\* and the request is answered as found: robotsTxtFound = true, one result
\* per requested bot, and a bot that no parsed group applies to (with no
\* group parsed at all, every bot) gets canFetchRoot = true.  A Crawl-delay
\* that int() refuses right after a User-agent line is such a failure; when
\* a blocking * group was complete before it, that group answers for every
\* bot.
C10_ParseWarning ==
    \A req \in Reqs :
        /\ (Done(req) /\ ParseFailed(req)) =>
              /\ response[req].robotsTxtFound
              /\ Len(response[req].warnings) = 1
              /\ ResultsFollowBots(req)
              /\ \A i \in 1..Len(response[req].results) :
                    (\/ NoGroupFor(fetched[req].body, response[req].results[i].userAgent)
                     \/ (rp[req].entries = <<>> /\ rp[req].default_entry = None)) =>
                        response[req].results[i].canFetchRoot
        /\ (Done(req) /\ fetched[req].kind = "resp" /\ fetched[req].status = 200
                /\ Len(fetched[req].body) >= 2
                /\ fetched[req].body[1].field = "user-agent"
                /\ fetched[req].body[2] = Line_CrawlDelayBad) =>
              ParseFailed(req)
        /\ Found200(req, Body_FailsAfterStar) =>
              /\ ParseFailed(req)
              /\ \A i \in 1..Len(response[req].results) :
                    ~response[req].results[i].canFetchRoot

\* the failure inside GPTBot's group, before its Disallow line: no group was
\* parsed and both bots are allowed
C10_Witness ==
    \E req \in Reqs :
        /\ Done(req)
        /\ ParseFailed(req)
        /\ fetched[req].body = <<Line_UAGPT, Line_CrawlDelayBad, Line_DisallowRoot>>
        /\ Bots(req) = <<"GPTBot", "ClaudeBot">>
        /\ response[req].blockedBots = <<>>
        /\ response[req].robotsTxtFound

====
